---------------------------- MODULE Spec2Model ----------------------------
(***************************************************************************)
(* A model of easyspc: the subgroup partitioner (chart.batched and         *)
(* base.batched), the WECO rule evaluator (rules.RulesBase / rules.WECO)   *)
(* and the chart statistics calculators of chart.py.                       *)
(*                                                                         *)
(* Python values are tagged records PyVal = [t, x, l]: t is the Python     *)
(* type name, x the numeric value of an int or a float, l the elements of  *)
(* a list.  Numbers are exact reals of the shape a + b * sqrt(v) with a, v *)
(* rational and b an integer, which is closed under everything the code    *)
(* does with the result of statistics.mean and statistics.stdev (float     *)
(* rounding is not modelled).  A raised exception is a result record       *)
(* [exc |-> <class name>, val |-> PyNone].                                 *)
(***************************************************************************)
EXTENDS Integers, Sequences, FiniteSets, TLC

VARIABLES bpc, bcall, bret,     \* partitioner: position, call, result
          rpc, weco, rcall, rret, \* rule evaluator: position, object, call, result
          cpc, chart, ccall, cret \* chart calculator: position, object, call, result

batchVars == <<bpc, bcall, bret>>
rulesVars == <<rpc, weco, rcall, rret>>
chartVars == <<cpc, chart, ccall, cret>>
vars == <<bpc, bcall, bret, rpc, weco, rcall, rret, cpc, chart, ccall, cret>>

-----------------------------------------------------------------------------
(* Bounds of the model.                                                    *)

\* longest observation series handed to batched / a chart calculator
MaxSeriesLen == 4
\* largest subgroup size tried (sizes range over -1 .. MaxSubgroupSize)
MaxSubgroupSize == 3
\* longest point series handed to rule_1, rule_2, rule_3 and rule_4
MaxLen1 == 2
MaxLen2 == 3
MaxLen3 == 5
MaxLen4 == 8
\* longest sample series (flat, or of subgroups) handed to RulesBase.__init__
MaxSampleLen == 2
\* longest defects series and longest sample-size sequence of a P chart
MaxDefectsLen == 3

-----------------------------------------------------------------------------
(* Exact rationals n/d, d > 0, in lowest terms.                            *)

Abs(i) == IF i < 0 THEN -i ELSE i
Min(a, b) == IF a < b THEN a ELSE b

RECURSIVE GCD(_, _)
GCD(a, b) == IF b = 0 THEN a ELSE GCD(b, a % b)

Rat(n, d) ==
    LET s == IF d < 0 THEN -1 ELSE 1
        g == GCD(Abs(n), Abs(d))
    IN  [n |-> (s * n) \div g, d |-> (s * d) \div g]

RInt(i) == [n |-> i, d |-> 1]
RAdd(p, q) == Rat(p.n * q.d + q.n * p.d, p.d * q.d)
RSub(p, q) == Rat(p.n * q.d - q.n * p.d, p.d * q.d)
RMul(p, q) == Rat(p.n * q.n, p.d * q.d)
RDivInt(p, k) == Rat(p.n, p.d * k)
RLt(p, q) == p.n * q.d < q.n * p.d
RLe(p, q) == p.n * q.d <= q.n * p.d

(* Integer square root by search, and whether a natural is a square.       *)
\* the largest r in lo .. hi with r * r <= n, by bisection
RECURSIVE ISqrtFrom(_, _, _)
ISqrtFrom(n, lo, hi) ==
    IF lo >= hi THEN lo
    ELSE LET mid == (lo + hi + 1) \div 2
         IN  IF mid * mid <= n THEN ISqrtFrom(n, mid, hi) ELSE ISqrtFrom(n, lo, mid - 1)
ISqrt(n) == ISqrtFrom(n, 0, Min(n, 46340))

-----------------------------------------------------------------------------
(* Reals a + b * sqrt(v): what Python's float arithmetic computes, without *)
(* the rounding.  Normal form: b is -1, 0 or 1, b = 0 iff v = 0, and v is   *)
(* not the square of a rational.                                           *)

Sign(i) == IF i < 0 THEN -1 ELSE IF i > 0 THEN 1 ELSE 0

\* a + sgn * sqrt(w), given the integer square roots rn, rd of w.n, w.d
RealOfRoots(a, sgn, w, rn, rd) ==
    IF rn * rn = w.n /\ rd * rd = w.d
    THEN [a |-> RAdd(a, [n |-> sgn * rn, d |-> rd]), b |-> 0, v |-> RInt(0)]
    ELSE [a |-> a, b |-> sgn, v |-> w]

\* a + sgn * sqrt(w) for w > 0 in lowest terms
RealOfSurd(a, sgn, w) == RealOfRoots(a, sgn, w, ISqrt(w.n), ISqrt(w.d))

Real(a, b, v) ==
    IF b = 0 \/ v.n = 0 THEN [a |-> a, b |-> 0, v |-> RInt(0)]
    ELSE RealOfSurd(a, Sign(b), RMul(RInt(b * b), v))

RealOfRat(q) == [a |-> q, b |-> 0, v |-> RInt(0)]
RealOfInt(i) == RealOfRat(RInt(i))
RealSqrt(q) == Real(RInt(0), 1, q)

\* a sum of two surds that are no rational multiples of each other, which
\* the normal form cannot hold
Unmodelled == [a |-> RInt(0), b |-> 0, v |-> RInt(-1)]

\* q * x for a rational q
RealMulRat(q, x) ==
    IF x = Unmodelled THEN Unmodelled
    ELSE Real(RMul(q, x.a), Sign(q.n) * x.b, RMul(RMul(q, q), x.v))

\* k * x for an integer k
RealScale(k, x) == RealMulRat(RInt(k), x)

\* a + (c.b * r + y.b) * sqrt(y.v), for the rational r = rn / rd
SurdSum(a, c, y) == Real(a, Sign(c.n), RMul(RMul(c, c), y.v))

\* x + y for two surds: sqrt(x.v) is r * sqrt(y.v) when q = x.v / y.v is the
\* square of the rational r = rn / rd
SurdAdd(x, y, q, rn, rd) ==
    IF rn * rn = q.n /\ rd * rd = q.d
    THEN SurdSum(RAdd(x.a, y.a), RAdd([n |-> x.b * rn, d |-> rd], RInt(y.b)), y)
    ELSE Unmodelled

SurdRatio(x, y) == Rat(x.v.n * y.v.d, x.v.d * y.v.n)
SurdAddBy(x, y, q) == SurdAdd(x, y, q, ISqrt(q.n), ISqrt(q.d))

\* x + y
RealAdd(x, y) ==
    IF x = Unmodelled \/ y = Unmodelled THEN Unmodelled
    ELSE IF x.b # 0 /\ y.b # 0 THEN SurdAddBy(x, y, SurdRatio(x, y))
    ELSE Real(RAdd(x.a, y.a), x.b + y.b, IF y.b = 0 THEN x.v ELSE y.v)
RealSub(x, y) == RealAdd(x, RealScale(-1, y))

\* the sign of a + b * sqrt(v): -1, 0 or 1
RealSign(x) ==
    LET sa == IF x.a.n < 0 THEN -1 ELSE IF x.a.n > 0 THEN 1 ELSE 0
        sb == IF x.b < 0 THEN -1 ELSE IF x.b > 0 THEN 1 ELSE 0
        a2 == RMul(x.a, x.a)
        b2v == RMul(RInt(x.b * x.b), x.v)
    IN  IF sb = 0 THEN sa
        ELSE IF sa = 0 \/ sa = sb THEN sb
        ELSE IF RLt(b2v, a2) THEN sa
        ELSE IF RLt(a2, b2v) THEN sb
        ELSE 0

RealLt(x, y) == RealSign(RealSub(x, y)) < 0

-----------------------------------------------------------------------------
(* Python values and results.                                              *)

Zero == RealOfInt(0)
PyNone == [t |-> "NoneType", x |-> Zero, l |-> <<>>]
PyUnset == [t |-> "unset", x |-> Zero, l |-> <<>>]
PyInt(i) == [t |-> "int", x |-> RealOfInt(i), l |-> <<>>]
PyFloat(i) == [t |-> "float", x |-> RealOfInt(i), l |-> <<>>]
PyFloatOf(r) == [t |-> "float", x |-> r, l |-> <<>>]
PyBool(b) == [t |-> "bool", x |-> IF b THEN RealOfInt(1) ELSE Zero, l |-> <<>>]
PyList(s) == [t |-> "list", x |-> Zero, l |-> s]

IsNumber(v) == v.t \in {"int", "float"}

Ok(v) == [exc |-> "none", val |-> v]
Raise(e) == [exc |-> e, val |-> PyNone]
NoResult == [exc |-> "pending", val |-> PyNone]


PyTuple(s) == [t |-> "tuple", x |-> Zero, l |-> s]

\* every sequence over S of length 0 .. n
SeqsUpTo(S, n) == UNION {[1..k -> S] : k \in 0..n}

-----------------------------------------------------------------------------
(* The subgroup partitioner.                                               *)

\* itertools.islice(iterator, n) on an iterator that has consumed pos items
islice(iterable, pos, n) == SubSeq(iterable, pos + 1, Min(pos + n, Len(iterable)))

RECURSIVE batched_loop(_, _, _, _)
batched_loop(iterable, n, pos, out) ==
    LET batch == islice(iterable, pos, n)
    IN  IF batch = <<>> THEN out
        ELSE batched_loop(iterable, n, pos + Len(batch), Append(out, PyTuple(batch)))

\* a partitioner that forgets a trailing short batch
RECURSIVE batched_full_only_loop(_, _, _, _)
batched_full_only_loop(iterable, n, pos, out) ==
    LET batch == islice(iterable, pos, n)
    IN  IF Len(batch) < n \/ batch = <<>> THEN out
        ELSE batched_full_only_loop(iterable, n, pos + Len(batch),
                                    Append(out, PyTuple(batch)))

batched_full_only(iterable, n) ==
    IF n < 0 THEN Raise("ValueError")
    ELSE Ok(PyList(batched_full_only_loop(iterable, n, 0, <<>>)))

\* list(chart.batched(iterable, n)): islice rejects a negative n with a
\* ValueError; with n = 0 the first batch is empty and the loop ends at once.
batched(iterable, n) ==
    IF n < 0 THEN Raise("ValueError")
    ELSE Ok(PyList(batched_loop(iterable, n, 0, <<>>)))

\* list(base.batched(iterable, n)): the guard, then the same loop; base.py
\* never imports islice, so the loop's first step raises NameError.
base_batched(iterable, n) ==
    IF n < 1 THEN Raise("ValueError")
    ELSE Raise("NameError")

SeriesValues == {PyInt(0), PyInt(1), PyInt(2)}
SeriesInputs == SeqsUpTo(SeriesValues, MaxSeriesLen)
SubgroupSizes == (-1)..MaxSubgroupSize

BatchInit ==
    /\ bpc = "ready"
    /\ bcall = [fn |-> "none", iterable |-> <<>>, n |-> 0]
    /\ bret = NoResult

CallChartBatched ==
    /\ bpc = "ready"
    /\ \E s \in SeriesInputs, k \in SubgroupSizes :
         /\ bcall' = [fn |-> "chart.batched", iterable |-> s, n |-> k]
         /\ bret' = batched(s, k)
    /\ bpc' = "returned"

CallBaseBatched ==
    /\ bpc = "ready"
    /\ \E s \in SeriesInputs, k \in SubgroupSizes :
         /\ bcall' = [fn |-> "base.batched", iterable |-> s, n |-> k]
         /\ bret' = base_batched(s, k)
    /\ bpc' = "returned"

-----------------------------------------------------------------------------
(* statistics.mean and statistics.stdev on the elements of a list/tuple.   *)

RECURSIVE RSum(_)
RSum(s) == IF s = <<>> THEN RInt(0) ELSE RAdd(s[1].x.a, RSum(Tail(s)))

RECURSIVE RSumSq(_)
RSumSq(s) == IF s = <<>> THEN RInt(0) ELSE RAdd(RMul(s[1].x.a, s[1].x.a), RSumSq(Tail(s)))

\* the exact sum of the numbers of s
RECURSIVE RealSum(_)
RealSum(s) == IF s = <<>> THEN Zero ELSE RealAdd(s[1].x, RealSum(Tail(s)))

AllNumbers(s) == \A i \in 1..Len(s) : IsNumber(s[i])
AllInts(s) == \A i \in 1..Len(s) : s[i].t = "int"

\* statistics.mean(data): StatisticsError on no data, TypeError on a
\* non-number; ints give an int when the mean is integral, a float otherwise.
mean(s) ==
    IF s = <<>> THEN Raise("StatisticsError")
    ELSE IF ~AllNumbers(s) THEN Raise("TypeError")
    ELSE LET m == RealMulRat(Rat(1, Len(s)), RealSum(s))
         IN  Ok([t |-> IF AllInts(s) /\ m.b = 0 /\ m.a.d = 1 THEN "int" ELSE "float",
                 x |-> m, l |-> <<>>])

\* a standard deviation that a single point satisfies (the population one)
pstdev(s) ==
    IF ~AllNumbers(s) THEN Raise("TypeError")
    ELSE IF Len(s) < 1 THEN Raise("StatisticsError")
    ELSE LET n == Len(s)
             sum == RSum(s)
             ss == RSub(RSumSq(s), RDivInt(RMul(sum, sum), n))
         IN  Ok(PyFloatOf(RealSqrt(RDivInt(ss, n))))

\* statistics.stdev(data): the sample standard deviation,
\* sqrt(sum((x - mean)^2) / (n - 1)); StatisticsError on fewer than two points.
stdev(s) ==
    IF ~AllNumbers(s) THEN Raise("TypeError")
    ELSE IF Len(s) < 2 THEN Raise("StatisticsError")
    ELSE LET n == Len(s)
             sum == RSum(s)
             ss == RSub(RSumSq(s), RDivInt(RMul(sum, sum), n))
         IN  Ok(PyFloatOf(RealSqrt(RDivInt(ss, n - 1))))

\* mean(v) and stdev(v) of a value, which must be iterable (mean(1.0) is a
\* TypeError)
IsIterable(v) == v.t \in {"list", "tuple"}
mean_of(v) == IF IsIterable(v) THEN mean(v.l) ELSE Raise("TypeError")
stdev_of(v) == IF IsIterable(v) THEN stdev(v.l) ELSE Raise("TypeError")

\* list(map(f, xs)) for an f that may raise: the first exception, or the list
FirstError(rs) == rs[CHOOSE i \in 1..Len(rs) : rs[i].exc # "none" /\ \A j \in 1..(i - 1) : rs[j].exc = "none"]
Collect(rs) ==
    IF \E i \in 1..Len(rs) : rs[i].exc # "none" THEN Raise(FirstError(rs).exc)
    ELSE Ok(PyList([i \in 1..Len(rs) |-> rs[i].val]))

-----------------------------------------------------------------------------
(* rules.RulesBase: construction.                                          *)

\* the center / sigma property setters
setter(value) ==
    IF value.t \in {"float", "list"} THEN Ok(value) ELSE Raise("TypeError")

Built(c, s) == [exc |-> "none", obj |-> [built |-> TRUE, center |-> c, sigma |-> s]]
Failed(e) == [exc |-> e, obj |-> [built |-> FALSE, center |-> PyUnset, sigma |-> PyUnset]]

\* what __init__ does to self.center given the sample series x: neither
\* branch taken leaves the attribute unset
set_from(r) == IF r.exc # "none" THEN r ELSE setter(r.val)
center_from_sample(x) ==
    IF x.l[1].t = "float" THEN set_from(mean(x.l))
    ELSE IF x.l[1].t = "list" THEN set_from(Collect([i \in 1..Len(x.l) |-> mean_of(x.l[i])]))
    ELSE Ok(PyUnset)

\* and to self.sigma
sigma_from_sample(x) ==
    IF x.l[1].t = "float" THEN set_from(stdev(x.l))
    ELSE IF x.l[1].t = "list" THEN set_from(Collect([i \in 1..Len(x.l) |-> stdev_of(x.l[i])]))
    ELSE Ok(PyUnset)

\* the object after the two assignments, center first: the first one that
\* raises leaves it unbuilt
assigned(c, s) ==
    IF c.exc # "none" THEN Failed(c.exc)
    ELSE IF s.exc # "none" THEN Failed(s.exc)
    ELSE Built(c.val, s.val)

RulesBase_init(x, center, sigma) ==
    IF x.t # "list" THEN assigned(setter(center), setter(sigma))
    ELSE IF x.l = <<>> THEN Failed("IndexError")
    ELSE assigned(center_from_sample(x), sigma_from_sample(x))

-----------------------------------------------------------------------------
(* Python's dynamic arithmetic, as far as the rules use it.                *)

NumType(a, b) == IF a.t = "int" /\ b.t = "int" THEN "int" ELSE "float"

RECURSIVE Repeat(_, _)
Repeat(s, k) == IF k <= 0 THEN <<>> ELSE s \o Repeat(s, k - 1)

\* reading self.center / self.sigma
getattr(v) == IF v.t = "unset" THEN Raise("AttributeError") ELSE Ok(v)

\* k * v for an int literal k: a number, or a list repeated k times
py_mul(k, v) ==
    IF IsNumber(v) THEN Ok([t |-> v.t, x |-> RealScale(k, v.x), l |-> <<>>])
    ELSE IF v.t = "list" THEN Ok(PyList(Repeat(v.l, k)))
    ELSE Raise("TypeError")

py_sub(a, b) ==
    IF IsNumber(a) /\ IsNumber(b)
    THEN Ok([t |-> NumType(a, b), x |-> RealSub(a.x, b.x), l |-> <<>>])
    ELSE Raise("TypeError")

py_add(a, b) ==
    IF IsNumber(a) /\ IsNumber(b)
    THEN Ok([t |-> NumType(a, b), x |-> RealAdd(a.x, b.x), l |-> <<>>])
    ELSE IF a.t = "list" /\ b.t = "list" THEN Ok(PyList(a.l \o b.l))
    ELSE Raise("TypeError")

\* d < y for a point d (a number): ordering a number against a list raises
py_lt(d, y) ==
    IF IsNumber(d) /\ IsNumber(y) THEN Ok(PyBool(RealLt(d.x, y.x)))
    ELSE Raise("TypeError")

py_gt(d, y) ==
    IF IsNumber(d) /\ IsNumber(y) THEN Ok(PyBool(RealLt(y.x, d.x)))
    ELSE Raise("TypeError")

py_le(d, y) ==
    IF IsNumber(d) /\ IsNumber(y) THEN Ok(PyBool(~RealLt(y.x, d.x)))
    ELSE Raise("TypeError")

py_ge(d, y) ==
    IF IsNumber(d) /\ IsNumber(y) THEN Ok(PyBool(~RealLt(d.x, y.x)))
    ELSE Raise("TypeError")

IsTrue(v) == v.t = "bool" /\ v.x = RealOfInt(1)

\* self.center - (k * self.sigma)
lower_limit(self, k) ==
    LET c == getattr(self.center)
        s == getattr(self.sigma)
        m == py_mul(k, s.val)
    IN  IF c.exc # "none" THEN c
        ELSE IF s.exc # "none" THEN s
        ELSE IF m.exc # "none" THEN m
        ELSE py_sub(c.val, m.val)

\* self.center + (k * self.sigma)
upper_limit(self, k) ==
    LET c == getattr(self.center)
        s == getattr(self.sigma)
        m == py_mul(k, s.val)
    IN  IF c.exc # "none" THEN c
        ELSE IF s.exc # "none" THEN s
        ELSE IF m.exc # "none" THEN m
        ELSE py_add(c.val, m.val)

-----------------------------------------------------------------------------
(* rules.WECO: the four rules.  Python's x[i - w : i + 1] is                *)
(* SubSeq(x, i - w + 1, i + 1) here, sequences being 1-based.               *)

\* sum(map(lambda d: d < ll, sub)) and sum(map(lambda d: d > lu, sub))
CountBelow(sub, ll) == Cardinality({j \in 1..Len(sub) : IsTrue(py_lt(sub[j], ll).val)})
CountAbove(sub, lu) == Cardinality({j \in 1..Len(sub) : IsTrue(py_gt(sub[j], lu).val)})

\* any(list(map(lambda d: (d < ll) or (d > lu), x)))
rule_1_any(x, ll, lu) ==
    \E i \in 1..Len(x) : IsTrue(py_lt(x[i], ll).val) \/ IsTrue(py_gt(x[i], lu).val)

\* rule 1 with the limits themselves counted as outside
rule_1_inclusive(self, x) ==
    LET ll == lower_limit(self, 3)
        lu == upper_limit(self, 3)
    IN  IF ll.exc # "none" THEN ll
        ELSE IF lu.exc # "none" THEN lu
        ELSE Ok(PyBool(\E i \in 1..Len(x) :
                 IsTrue(py_le(x[i], ll.val).val) \/ IsTrue(py_ge(x[i], lu.val).val)))

rule_1(self, x) ==
    LET ll == lower_limit(self, 3)
        lu == upper_limit(self, 3)
    IN  IF ll.exc # "none" THEN ll
        ELSE IF lu.exc # "none" THEN lu
        ELSE Ok(PyBool(rule_1_any(x, ll.val, lu.val)))

\* for i in range(1, len(x)), from Python index i on
RECURSIVE rule_2_loop(_, _, _, _)
rule_2_loop(x, ll, lu, i) ==
    IF i >= Len(x) THEN FALSE
    ELSE LET sub == SubSeq(x, i, i + 1)
         IN  IF CountBelow(sub, ll) = 2 THEN TRUE
             ELSE IF CountAbove(sub, lu) = 2 THEN TRUE
             ELSE rule_2_loop(x, ll, lu, i + 1)

\* rule 2 counting the points beyond either limit together
RECURSIVE rule_2_either_side_loop(_, _, _, _)
rule_2_either_side_loop(x, ll, lu, i) ==
    IF i >= Len(x) THEN FALSE
    ELSE LET sub == SubSeq(x, i, i + 1)
         IN  IF CountBelow(sub, ll) + CountAbove(sub, lu) = 2 THEN TRUE
             ELSE rule_2_either_side_loop(x, ll, lu, i + 1)

rule_2_either_side(self, x) ==
    LET ll == lower_limit(self, 2)
        lu == upper_limit(self, 2)
    IN  IF ll.exc # "none" THEN ll
        ELSE IF lu.exc # "none" THEN lu
        ELSE Ok(PyBool(rule_2_either_side_loop(x, ll.val, lu.val, 1)))

rule_2(self, x) ==
    LET ll == lower_limit(self, 2)
        lu == upper_limit(self, 2)
    IN  IF ll.exc # "none" THEN ll
        ELSE IF lu.exc # "none" THEN lu
        ELSE Ok(PyBool(rule_2_loop(x, ll.val, lu.val, 1)))

\* for i in range(3, len(x)), up to and excluding Python index stop
RECURSIVE rule_3_loop(_, _, _, _, _)
rule_3_loop(x, ll, lu, i, stop) ==
    IF i >= stop THEN FALSE
    ELSE LET sub == SubSeq(x, i - 2, i + 1)
         IN  IF CountBelow(sub, ll) = 4 THEN TRUE
             ELSE IF CountAbove(sub, lu) = 4 THEN TRUE
             ELSE rule_3_loop(x, ll, lu, i + 1, stop)

\* rule 3 with the scan stopping one window early
rule_3_skip_last(self, x) ==
    LET ll == lower_limit(self, 1)
        lu == upper_limit(self, 1)
    IN  IF ll.exc # "none" THEN ll
        ELSE IF lu.exc # "none" THEN lu
        ELSE Ok(PyBool(rule_3_loop(x, ll.val, lu.val, 3, Len(x) - 1)))

rule_3(self, x) ==
    LET ll == lower_limit(self, 1)
        lu == upper_limit(self, 1)
    IN  IF ll.exc # "none" THEN ll
        ELSE IF lu.exc # "none" THEN lu
        ELSE Ok(PyBool(rule_3_loop(x, ll.val, lu.val, 3, Len(x))))

\* all(map(lambda d: d < center, sub)): stops at the first false comparison,
\* raises what a comparison raises
RECURSIVE all_below(_, _)
all_below(sub, center) ==
    IF sub = <<>> THEN Ok(PyBool(TRUE))
    ELSE LET r == py_lt(sub[1], center)
         IN  IF r.exc # "none" THEN r
             ELSE IF ~IsTrue(r.val) THEN Ok(PyBool(FALSE))
             ELSE all_below(Tail(sub), center)

\* all(map(lambda d: d > center, sub))
RECURSIVE all_above(_, _)
all_above(sub, center) ==
    IF sub = <<>> THEN Ok(PyBool(TRUE))
    ELSE LET r == py_gt(sub[1], center)
         IN  IF r.exc # "none" THEN r
             ELSE IF ~IsTrue(r.val) THEN Ok(PyBool(FALSE))
             ELSE all_above(Tail(sub), center)

\* for i in range(7, len(x)), from Python index i on
RECURSIVE rule_4_loop(_, _, _)
rule_4_loop(x, center, i) ==
    IF i >= Len(x) THEN Ok(PyBool(FALSE))
    ELSE LET sub == SubSeq(x, i - 6, i + 1)
             lo == all_below(sub, center)
             hi == all_above(sub, center)
         IN  IF lo.exc # "none" THEN lo
             ELSE IF IsTrue(lo.val) THEN Ok(PyBool(TRUE))
             ELSE IF hi.exc # "none" THEN hi
             ELSE IF IsTrue(hi.val) THEN Ok(PyBool(TRUE))
             ELSE rule_4_loop(x, center, i + 1)

\* rule 4 counting a point on the center line as on either side
RECURSIVE rule_4_inclusive_loop(_, _, _)
rule_4_inclusive_loop(x, center, i) ==
    IF i >= Len(x) THEN FALSE
    ELSE LET sub == SubSeq(x, i - 6, i + 1)
         IN  IF \A j \in 1..Len(sub) : IsTrue(py_le(sub[j], center).val) THEN TRUE
             ELSE IF \A j \in 1..Len(sub) : IsTrue(py_ge(sub[j], center).val) THEN TRUE
             ELSE rule_4_inclusive_loop(x, center, i + 1)

rule_4_inclusive(self, x) ==
    LET center == getattr(self.center)
    IN  IF center.exc # "none" THEN center
        ELSE Ok(PyBool(rule_4_inclusive_loop(x, center.val, 7)))

rule_4(self, x) ==
    LET center == getattr(self.center)
    IN  IF center.exc # "none" THEN center
        ELSE rule_4_loop(x, center.val, 7)

-----------------------------------------------------------------------------
(* Idle values of the components a specification does not exercise.        *)

NoObject == [built |-> FALSE]
NoCall == [op |-> "none"]

RulesIdle == rpc = "idle" /\ weco = NoObject /\ rcall = NoCall /\ rret = NoResult
ChartIdle == cpc = "idle" /\ chart = NoObject /\ ccall = NoCall /\ cret = NoResult
BatchIdle == bpc = "idle" /\ bcall = NoCall /\ bret = NoResult

SpecBatchedInit == BatchInit /\ RulesIdle /\ ChartIdle

SpecBatchedNext ==
    \/ CallChartBatched /\ UNCHANGED <<rulesVars, chartVars>>
    \/ CallBaseBatched /\ UNCHANGED <<rulesVars, chartVars>>

SpecBatched == SpecBatchedInit /\ [][SpecBatchedNext]_vars

-----------------------------------------------------------------------------
(* The rule evaluator: WECO(x, center, sigma), then one rule evaluation    *)
(* (the rules only read the evaluator).                                    *)

Floats(S) == {PyFloat(i) : i \in S}

ScalarCenters == Floats({0, 1})
ScalarSigmas == Floats({1, 2})
PerPointCenters == {PyList(<<PyFloat(0), PyFloat(0)>>)}
PerPointSigmas == {PyList(<<PyFloat(1), PyFloat(1)>>)}
LongPerPointCenters == {PyList([i \in 1..MaxLen4 |-> PyFloat(0)])}
LongPerPointSigmas == {PyList([i \in 1..MaxLen4 |-> PyFloat(1)])}
CenterInputs == {PyNone, PyInt(0)} \cup ScalarCenters \cup PerPointCenters
SigmaInputs == {PyNone, PyInt(1)} \cup ScalarSigmas \cup PerPointSigmas

FlatFloatSamples == {PyList(q) : q \in SeqsUpTo(Floats({0, 2}), MaxSampleLen)}
FlatIntSamples == {PyList(q) : q \in SeqsUpTo({PyInt(1), PyInt(2)}, MaxSampleLen) \ {<<>>}}
Subgroups == {PyList(<<PyFloat(0), PyFloat(2)>>), PyList(<<PyFloat(1), PyFloat(1)>>),
              PyList(<<PyFloat(1)>>)}
NestedSamples == {PyList(q) : q \in SeqsUpTo(Subgroups, MaxSampleLen) \ {<<>>}}
SampleInputs == FlatFloatSamples \cup FlatIntSamples \cup NestedSamples

Points1 == SeqsUpTo(Floats({-4, -3, 0, 3, 4}), MaxLen1)
Points2 == SeqsUpTo(Floats({-3, -2, 2, 3}), MaxLen2)
Points3 == SeqsUpTo(Floats({-2, -1, 1, 2}), MaxLen3)
Points4 == SeqsUpTo(Floats({-1, 0, 1}), MaxLen4)

RulesInit ==
    /\ rpc = "new"
    /\ weco = NoObject
    /\ rcall = NoCall
    /\ rret = NoResult

\* WECO(x=x, center=center, sigma=sigma) with the arguments drawn from X, C, S
Construct(X, C, S) ==
    /\ rpc = "new"
    /\ \E x \in X, center \in C, sigma \in S :
         LET r == RulesBase_init(x, center, sigma)
         IN  /\ rcall' = [op |-> "__init__", x |-> x, center |-> center, sigma |-> sigma]
             /\ rret' = [exc |-> r.exc, val |-> PyNone]
             /\ weco' = r.obj
             /\ rpc' = IF r.exc = "none" THEN "built" ELSE "raised"

\* WECO(x=sample) and WECO(center=c, sigma=s); the latter for series of
\* MaxLen4 points: float scalars, or per-point lists of that length
WECO_from_sample == Construct(SampleInputs, {PyNone}, {PyNone})
WECO_from_parameters == Construct({PyNone}, CenterInputs, SigmaInputs)
WECO_for_long_series ==
    Construct({PyNone}, ScalarCenters \cup LongPerPointCenters,
              ScalarSigmas \cup LongPerPointSigmas)

\* weco.rule_1(x)
Rule1 ==
    /\ rpc = "built"
    /\ \E x \in Points1 :
         /\ rcall' = [op |-> "rule_1", x |-> x]
         /\ rret' = rule_1(weco, x)
    /\ rpc' = "evaluated"
    /\ UNCHANGED weco

\* weco.rule_2(x)
Rule2 ==
    /\ rpc = "built"
    /\ \E x \in Points2 :
         /\ rcall' = [op |-> "rule_2", x |-> x]
         /\ rret' = rule_2(weco, x)
    /\ rpc' = "evaluated"
    /\ UNCHANGED weco

\* weco.rule_3(x)
Rule3 ==
    /\ rpc = "built"
    /\ \E x \in Points3 :
         /\ rcall' = [op |-> "rule_3", x |-> x]
         /\ rret' = rule_3(weco, x)
    /\ rpc' = "evaluated"
    /\ UNCHANGED weco

\* weco.rule_4(x)
Rule4 ==
    /\ rpc = "built"
    /\ \E x \in Points4 :
         /\ rcall' = [op |-> "rule_4", x |-> x]
         /\ rret' = rule_4(weco, x)
    /\ rpc' = "evaluated"
    /\ UNCHANGED weco

SpecRulesInit == RulesInit /\ BatchIdle /\ ChartIdle

SpecRulesNext ==
    \/ WECO_from_sample /\ UNCHANGED <<batchVars, chartVars>>
    \/ WECO_from_parameters /\ UNCHANGED <<batchVars, chartVars>>
    \/ Rule1 /\ UNCHANGED <<batchVars, chartVars>>
    \/ Rule2 /\ UNCHANGED <<batchVars, chartVars>>
    \/ Rule3 /\ UNCHANGED <<batchVars, chartVars>>

SpecRules == SpecRulesInit /\ [][SpecRulesNext]_vars

\* rule 4 needs series of eight points and more: fewer evaluators
SpecRule4Next ==
    \/ WECO_for_long_series /\ UNCHANGED <<batchVars, chartVars>>
    \/ Rule4 /\ UNCHANGED <<batchVars, chartVars>>

SpecRule4 == SpecRulesInit /\ [][SpecRule4Next]_vars

-----------------------------------------------------------------------------
(* chart.XBarR: construction and the center-line queries.                  *)

\* max(v) and min(v) of a non-empty tuple: the first largest / smallest item
RECURSIVE py_max_from(_, _)
py_max_from(best, rest) ==
    IF rest = <<>> THEN best
    ELSE py_max_from(IF RealLt(best.x, rest[1].x) THEN rest[1] ELSE best, Tail(rest))
py_max(v) == py_max_from(v[1], Tail(v))

RECURSIVE py_min_from(_, _)
py_min_from(best, rest) ==
    IF rest = <<>> THEN best
    ELSE py_min_from(IF RealLt(rest[1].x, best.x) THEN rest[1] ELSE best, Tail(rest))
py_min(v) == py_min_from(v[1], Tail(v))

\* a range taken as last item minus first item
subgroup_range_last_first(v) == py_sub(v[Len(v)], v[1])

\* lambda v: max(v) - min(v)
subgroup_range(v) == py_sub(py_max(v), py_min(v))

range_of(v) == IF IsIterable(v) THEN subgroup_range(v.l) ELSE Raise("TypeError")

ChartFailed(e) == [exc |-> e, obj |-> NoObject]

XBarR_init(data, subgroup_size) ==
    LET groups == batched(data, subgroup_size)
    IN  IF groups.exc # "none" THEN ChartFailed(groups.exc)
        ELSE LET g == groups.val.l
                 x_bar == Collect([j \in 1..Len(g) |-> mean_of(g[j])])
                 r == Collect([j \in 1..Len(g) |-> range_of(g[j])])
             IN  IF x_bar.exc # "none" THEN ChartFailed(x_bar.exc)
                 ELSE IF r.exc # "none" THEN ChartFailed(r.exc)
                 ELSE [exc |-> "none",
                       obj |-> [built |-> TRUE, cls |-> "XBarR",
                                subgroup_size |-> subgroup_size,
                                x_bar |-> x_bar.val, r |-> r.val]]

XBarR_center_line_x(self) == mean(self.x_bar.l)
XBarR_center_line_r(self) == mean(self.r.l)

-----------------------------------------------------------------------------
(* const: the table of anti-bias constants, in thousandths.                *)

field_names == <<"A2", "A3", "d2", "D3", "D4", "B3", "B4">>

MinTableKey == 2
MaxTableKey == 25

abc_rows ==
    << <<1880, 2659, 1128, 0, 3267, 0, 3267>>,
       <<1023, 1954, 1693, 0, 2574, 0, 2568>>,
       <<729, 1628, 2059, 0, 2282, 0, 2266>>,
       <<577, 1427, 2326, 0, 2114, 0, 2089>>,
       <<483, 1287, 2534, 0, 2004, 30, 1970>>,
       <<419, 1182, 2704, 76, 1924, 118, 1882>>,
       <<373, 1099, 2847, 136, 1864, 185, 1815>>,
       <<337, 1032, 2970, 184, 1816, 239, 1761>>,
       <<308, 975, 3078, 223, 1777, 284, 1716>>,
       <<285, 927, 3173, 256, 1744, 321, 1679>>,
       <<266, 886, 3258, 283, 1717, 354, 1646>>,
       <<249, 850, 3336, 307, 1693, 382, 1618>>,
       <<235, 817, 3407, 328, 1672, 406, 1594>>,
       <<223, 789, 3472, 347, 1653, 428, 1572>>,
       <<212, 763, 3532, 363, 1637, 448, 1552>>,
       <<203, 739, 3588, 378, 1622, 466, 1534>>,
       <<194, 718, 3640, 391, 1608, 482, 1518>>,
       <<187, 698, 3689, 403, 1597, 497, 1503>>,
       <<180, 680, 3735, 415, 1585, 510, 1490>>,
       <<173, 663, 3778, 425, 1575, 523, 1477>>,
       <<167, 647, 3819, 434, 1566, 534, 1466>>,
       <<162, 633, 3858, 443, 1557, 545, 1455>>,
       <<157, 619, 3895, 451, 1548, 555, 1445>>,
       <<153, 606, 3931, 459, 1541, 565, 1435>> >>

\* the dict: key k |-> the namedtuple of its row
abc_table == [k \in MinTableKey..MaxTableKey |-> abc_rows[k - MinTableKey + 1]]

FieldIndex(name) == CHOOSE i \in 1..Len(field_names) : field_names[i] = name

\* abc_table[k].name: KeyError for a key the dict does not hold, then
\* AttributeError for a name the namedtuple does not have
coefficient(k, name) ==
    IF k \notin DOMAIN abc_table THEN Raise("KeyError")
    ELSE IF \A i \in 1..Len(field_names) : field_names[i] # name
         THEN Raise("AttributeError")
         ELSE Ok(PyFloatOf(RealOfRat(Rat(abc_table[k][FieldIndex(name)], 1000))))

-----------------------------------------------------------------------------
(* Arithmetic on two numbers, as the chart calculators use it.             *)

\* x * y: exact when one of the two is rational
RealMul(x, y) ==
    IF x = Unmodelled \/ y = Unmodelled THEN Unmodelled
    ELSE IF x.b = 0 THEN RealMulRat(x.a, y)
    ELSE IF y.b = 0 THEN RealMulRat(y.a, x)
    ELSE Unmodelled

\* x / y for y # 0: exact when y is rational
RealDiv(x, y) ==
    IF x = Unmodelled \/ y = Unmodelled \/ y.b # 0 THEN Unmodelled
    ELSE RealMulRat(Rat(y.a.d, y.a.n), x)

\* a * b
py_mul_num(a, b) ==
    IF IsNumber(a) /\ IsNumber(b)
    THEN Ok([t |-> NumType(a, b), x |-> RealMul(a.x, b.x), l |-> <<>>])
    ELSE Raise("TypeError")

\* a / b: true division, always a float
py_truediv(a, b) ==
    IF ~(IsNumber(a) /\ IsNumber(b)) THEN Raise("TypeError")
    ELSE IF b.x = Zero THEN Raise("ZeroDivisionError")
    ELSE Ok(PyFloatOf(RealDiv(a.x, b.x)))

\* abs(a)
py_abs(a) ==
    IF ~IsNumber(a) THEN Raise("TypeError")
    ELSE Ok(IF RealSign(a.x) < 0 THEN [a EXCEPT !.x = RealScale(-1, a.x)] ELSE a)

\* a op b on two results: the left operand's exception first, then the right's
BinOpError(p, q) == IF p.exc # "none" THEN p ELSE q
BothOk(p, q) == p.exc = "none" /\ q.exc = "none"
r_sub(p, q) == IF BothOk(p, q) THEN py_sub(p.val, q.val) ELSE BinOpError(p, q)
r_add(p, q) == IF BothOk(p, q) THEN py_add(p.val, q.val) ELSE BinOpError(p, q)
r_mul(p, q) == IF BothOk(p, q) THEN py_mul_num(p.val, q.val) ELSE BinOpError(p, q)
r_truediv(p, q) == IF BothOk(p, q) THEN py_truediv(p.val, q.val) ELSE BinOpError(p, q)

\* min((a, b)) of a tuple of two numbers: the first smallest
r_min2(p, q) ==
    IF ~BothOk(p, q) THEN BinOpError(p, q)
    ELSE IF ~(IsNumber(p.val) /\ IsNumber(q.val)) THEN Raise("TypeError")
    ELSE IF RealLt(q.val.x, p.val.x) THEN q ELSE p

-----------------------------------------------------------------------------
(* chart.XBarR: control limits and capability ratios.  The coefficient is  *)
(* looked up first, so its exception comes before any other.               *)

XBarR_lower_control_limit_x(self) ==
    LET A2 == coefficient(self.subgroup_size, "A2")
    IN  IF A2.exc # "none" THEN A2
        ELSE r_sub(XBarR_center_line_x(self), r_mul(A2, XBarR_center_line_r(self)))

XBarR_upper_control_limit_x(self) ==
    LET A2 == coefficient(self.subgroup_size, "A2")
    IN  IF A2.exc # "none" THEN A2
        ELSE r_add(XBarR_center_line_x(self), r_mul(A2, XBarR_center_line_r(self)))

\* a lower range limit that takes the upper limit's coefficient
XBarR_lower_control_limit_r_D4(self) ==
    LET D4 == coefficient(self.subgroup_size, "D4")
    IN  IF D4.exc # "none" THEN D4 ELSE r_mul(D4, XBarR_center_line_r(self))

XBarR_lower_control_limit_r(self) ==
    LET D3 == coefficient(self.subgroup_size, "D3")
    IN  IF D3.exc # "none" THEN D3 ELSE r_mul(D3, XBarR_center_line_r(self))

XBarR_upper_control_limit_r(self) ==
    LET D4 == coefficient(self.subgroup_size, "D4")
    IN  IF D4.exc # "none" THEN D4 ELSE r_mul(D4, XBarR_center_line_r(self))

\* sigma = self.center_line_r / d2, after the lookup of d2
XBarR_sigma(self) ==
    LET d2 == coefficient(self.subgroup_size, "d2")
    IN  IF d2.exc # "none" THEN d2 ELSE r_truediv(XBarR_center_line_r(self), d2)

XBarR_cp(self, lsl, usl) ==
    LET sigma == XBarR_sigma(self)
    IN  IF sigma.exc # "none" THEN sigma
        ELSE r_truediv(py_sub(usl, lsl), py_mul(6, sigma.val))

\* self.x_bar, the list of subgroup means, is what cpk subtracts
XBarR_cpk(self, lsl, usl) ==
    LET sigma == XBarR_sigma(self)
        cpk_upper == r_truediv(py_sub(usl, self.x_bar), py_mul(3, sigma.val))
        cpk_lower == r_truediv(py_sub(self.x_bar, lsl), py_mul(3, sigma.val))
    IN  IF sigma.exc # "none" THEN sigma
        ELSE IF cpk_upper.exc # "none" THEN cpk_upper
        ELSE r_min2(cpk_upper, cpk_lower)

-----------------------------------------------------------------------------
(* chart.XBarS.                                                            *)

XBarS_init(data, subgroup_size) ==
    LET groups == batched(data, subgroup_size)
    IN  IF groups.exc # "none" THEN ChartFailed(groups.exc)
        ELSE LET g == groups.val.l
                 x_bar == Collect([j \in 1..Len(g) |-> mean_of(g[j])])
                 sd == Collect([j \in 1..Len(g) |-> stdev_of(g[j])])
             IN  IF x_bar.exc # "none" THEN ChartFailed(x_bar.exc)
                 ELSE IF sd.exc # "none" THEN ChartFailed(sd.exc)
                 ELSE [exc |-> "none",
                       obj |-> [built |-> TRUE, cls |-> "XBarS",
                                subgroup_size |-> subgroup_size,
                                x_bar |-> x_bar.val, s |-> sd.val]]

XBarS_center_line_x(self) == mean(self.x_bar.l)
XBarS_center_line_s(self) == mean(self.s.l)

XBarS_lower_control_limit_x(self) ==
    LET A3 == coefficient(self.subgroup_size, "A3")
    IN  IF A3.exc # "none" THEN A3
        ELSE r_sub(XBarS_center_line_x(self), r_mul(A3, XBarS_center_line_s(self)))

XBarS_upper_control_limit_x(self) ==
    LET A3 == coefficient(self.subgroup_size, "A3")
    IN  IF A3.exc # "none" THEN A3
        ELSE r_add(XBarS_center_line_x(self), r_mul(A3, XBarS_center_line_s(self)))

XBarS_lower_control_limit_s(self) ==
    LET B3 == coefficient(self.subgroup_size, "B3")
    IN  IF B3.exc # "none" THEN B3 ELSE r_mul(B3, XBarS_center_line_s(self))

XBarS_upper_control_limit_s(self) ==
    LET B4 == coefficient(self.subgroup_size, "B4")
    IN  IF B4.exc # "none" THEN B4 ELSE r_mul(B4, XBarS_center_line_s(self))

\* sigma = self.center_line_s / C4, after the lookup of C4
XBarS_sigma(self) ==
    LET C4 == coefficient(self.subgroup_size, "C4")
    IN  IF C4.exc # "none" THEN C4 ELSE r_truediv(XBarS_center_line_s(self), C4)

XBarS_cp(self, lsl, usl) ==
    LET sigma == XBarS_sigma(self)
    IN  IF sigma.exc # "none" THEN sigma
        ELSE r_truediv(py_sub(usl, lsl), py_mul(6, sigma.val))

XBarS_cpk(self, lsl, usl) ==
    LET sigma == XBarS_sigma(self)
        cpk_upper == r_truediv(py_sub(usl, self.x_bar), py_mul(3, sigma.val))
        cpk_lower == r_truediv(py_sub(self.x_bar, lsl), py_mul(3, sigma.val))
    IN  IF sigma.exc # "none" THEN sigma
        ELSE IF cpk_upper.exc # "none" THEN cpk_upper
        ELSE r_min2(cpk_upper, cpk_lower)

-----------------------------------------------------------------------------
(* chart.IMR.  Python's data[i] is data[i + 1] here.                        *)

\* a moving range that keeps the sign of the difference
moving_range_signed(data, i) == py_sub(data[i + 1], data[i])

\* func = lambda i: abs(data[i] - data[i - 1])
moving_range(data, i) ==
    LET d == py_sub(data[i + 1], data[i])
    IN  IF d.exc # "none" THEN d ELSE py_abs(d.val)

\* self.mr = list(map(func, range(1, len(data))))
IMR_init(data) ==
    LET mr == Collect([i \in 1..(Len(data) - 1) |-> moving_range(data, i)])
    IN  IF mr.exc # "none" THEN ChartFailed(mr.exc)
        ELSE [exc |-> "none",
              obj |-> [built |-> TRUE, cls |-> "IMR", i |-> PyList(data), mr |-> mr.val]]

IMR_center_line_i(self) == mean(self.i.l)
IMR_center_line_mr(self) == mean(self.mr.l)

\* 3 * stdev(self.i)
IMR_three_stdev(self) ==
    LET sd == stdev(self.i.l)
    IN  IF sd.exc # "none" THEN sd ELSE py_mul(3, sd.val)

IMR_lower_control_limit_i(self) == r_sub(IMR_center_line_i(self), IMR_three_stdev(self))
IMR_upper_control_limit_i(self) == r_add(IMR_center_line_i(self), IMR_three_stdev(self))

\* 3 * self.center_line_i / d2
IMR_mr_spread(self, d2) ==
    LET c == IMR_center_line_i(self)
    IN  IF c.exc # "none" THEN c ELSE r_truediv(py_mul(3, c.val), d2)

IMR_lower_control_limit_mr(self) ==
    LET d2 == coefficient(2, "d2")
    IN  IF d2.exc # "none" THEN d2
        ELSE r_sub(IMR_center_line_mr(self), IMR_mr_spread(self, d2))

IMR_upper_control_limit_mr(self) ==
    LET d2 == coefficient(2, "d2")
    IN  IF d2.exc # "none" THEN d2
        ELSE r_add(IMR_center_line_mr(self), IMR_mr_spread(self, d2))

-----------------------------------------------------------------------------
(* chart.P.  The class statement holds a docstring only: the def __init__  *)
(* that follows it is dedented to module level, and the p, center_line and *)
(* control-limit properties are local definitions inside that function,    *)
(* which it drops on return.                                               *)

\* P(defects, sample_sizes): the class defines no __init__, so object's
\* constructor rejects the arguments
P_new(defects, sample_sizes) == ChartFailed("TypeError")

\* P(): an instance without attributes
P_new_bare ==
    [exc |-> "none",
     obj |-> [built |-> TRUE, cls |-> "P", defects |-> PyUnset, sample_sizes |-> PyUnset]]

\* the module-level function __init__(self, defects, sample_sizes)
P_init(self, defects, sample_sizes) ==
    [self EXCEPT !.defects = defects, !.sample_sizes = sample_sizes]

\* reading an attribute the class does not define
P_getattr(self, name) ==
    IF name \in {"defects", "sample_sizes"}
    THEN getattr(IF name = "defects" THEN self.defects ELSE self.sample_sizes)
    ELSE Raise("AttributeError")

-----------------------------------------------------------------------------
(* The chart calculators: construction, then one query.                    *)

\* the series 0, 1, ..., 8 of the chart tests
Range9 == [i \in 1..9 |-> PyInt(i - 1)]
ChartSeriesInputs == SeriesInputs \cup {Range9}
\* the series 1, 2, 3
Series123 == <<PyInt(1), PyInt(2), PyInt(3)>>
IMRSeriesInputs == ChartSeriesInputs \cup {Series123}
\* defect counts, and sample sizes: one for all points or one per point
DefectsInputs == {PyList(q) : q \in SeqsUpTo(SeriesValues, MaxDefectsLen)}
SampleSizeInputs ==
    {PyInt(2), PyInt(100)}
        \cup {PyList(q) : q \in SeqsUpTo({PyInt(2), PyInt(4)}, MaxDefectsLen)}
PAttributes == {"p", "center_line", "lower_control_limit", "upper_control_limit"}
\* subgroup sizes, with the last key of the table and the first one beyond it
ChartSubgroupSizes == SubgroupSizes \cup {MaxTableKey, MaxTableKey + 1}
\* lsl and usl of the capability ratios
SpecificationLimits == Floats({0, 2, 6})

ChartInit ==
    /\ cpc = "new"
    /\ chart = NoObject
    /\ ccall = NoCall
    /\ cret = NoResult

\* XBarR(data, subgroup_size=k)
NewXBarR ==
    /\ cpc = "new"
    /\ \E data \in ChartSeriesInputs, k \in ChartSubgroupSizes :
         LET r == XBarR_init(data, k)
         IN  /\ ccall' = [op |-> "XBarR", data |-> data, subgroup_size |-> k]
             /\ cret' = [exc |-> r.exc, val |-> PyNone]
             /\ chart' = r.obj
             /\ cpc' = IF r.exc = "none" THEN "built" ELSE "raised"

\* reading chart.center_line_x
XBarR_CenterLineX ==
    /\ cpc = "built"
    /\ chart.cls = "XBarR"
    /\ ccall' = [op |-> "center_line_x"]
    /\ cret' = XBarR_center_line_x(chart)
    /\ cpc' = "queried"
    /\ UNCHANGED chart

\* reading chart.center_line_r
XBarR_CenterLineR ==
    /\ cpc = "built"
    /\ chart.cls = "XBarR"
    /\ ccall' = [op |-> "center_line_r"]
    /\ cret' = XBarR_center_line_r(chart)
    /\ cpc' = "queried"
    /\ UNCHANGED chart

\* reading chart.lower_control_limit_x
XBarR_LowerControlLimitX ==
    /\ cpc = "built"
    /\ chart.cls = "XBarR"
    /\ ccall' = [op |-> "lower_control_limit_x"]
    /\ cret' = XBarR_lower_control_limit_x(chart)
    /\ cpc' = "queried"
    /\ UNCHANGED chart

\* reading chart.upper_control_limit_x
XBarR_UpperControlLimitX ==
    /\ cpc = "built"
    /\ chart.cls = "XBarR"
    /\ ccall' = [op |-> "upper_control_limit_x"]
    /\ cret' = XBarR_upper_control_limit_x(chart)
    /\ cpc' = "queried"
    /\ UNCHANGED chart

\* reading chart.lower_control_limit_r
XBarR_LowerControlLimitR ==
    /\ cpc = "built"
    /\ chart.cls = "XBarR"
    /\ ccall' = [op |-> "lower_control_limit_r"]
    /\ cret' = XBarR_lower_control_limit_r(chart)
    /\ cpc' = "queried"
    /\ UNCHANGED chart

\* reading chart.upper_control_limit_r
XBarR_UpperControlLimitR ==
    /\ cpc = "built"
    /\ chart.cls = "XBarR"
    /\ ccall' = [op |-> "upper_control_limit_r"]
    /\ cret' = XBarR_upper_control_limit_r(chart)
    /\ cpc' = "queried"
    /\ UNCHANGED chart

\* chart.cp(lsl, usl)
XBarR_Cp ==
    /\ cpc = "built"
    /\ chart.cls = "XBarR"
    /\ \E lsl \in SpecificationLimits, usl \in SpecificationLimits :
         /\ ccall' = [op |-> "cp", lsl |-> lsl, usl |-> usl]
         /\ cret' = XBarR_cp(chart, lsl, usl)
    /\ cpc' = "queried"
    /\ UNCHANGED chart

\* chart.cpk(lsl, usl)
XBarR_Cpk ==
    /\ cpc = "built"
    /\ chart.cls = "XBarR"
    /\ \E lsl \in SpecificationLimits, usl \in SpecificationLimits :
         /\ ccall' = [op |-> "cpk", lsl |-> lsl, usl |-> usl]
         /\ cret' = XBarR_cpk(chart, lsl, usl)
    /\ cpc' = "queried"
    /\ UNCHANGED chart

\* XBarS(data, subgroup_size=k)
NewXBarS ==
    /\ cpc = "new"
    /\ \E data \in ChartSeriesInputs, k \in ChartSubgroupSizes :
         LET r == XBarS_init(data, k)
         IN  /\ ccall' = [op |-> "XBarS", data |-> data, subgroup_size |-> k]
             /\ cret' = [exc |-> r.exc, val |-> PyNone]
             /\ chart' = r.obj
             /\ cpc' = IF r.exc = "none" THEN "built" ELSE "raised"

\* reading chart.center_line_x
XBarS_CenterLineX ==
    /\ cpc = "built"
    /\ chart.cls = "XBarS"
    /\ ccall' = [op |-> "center_line_x"]
    /\ cret' = XBarS_center_line_x(chart)
    /\ cpc' = "queried"
    /\ UNCHANGED chart

\* reading chart.center_line_s
XBarS_CenterLineS ==
    /\ cpc = "built"
    /\ chart.cls = "XBarS"
    /\ ccall' = [op |-> "center_line_s"]
    /\ cret' = XBarS_center_line_s(chart)
    /\ cpc' = "queried"
    /\ UNCHANGED chart

\* reading chart.lower_control_limit_x
XBarS_LowerControlLimitX ==
    /\ cpc = "built"
    /\ chart.cls = "XBarS"
    /\ ccall' = [op |-> "lower_control_limit_x"]
    /\ cret' = XBarS_lower_control_limit_x(chart)
    /\ cpc' = "queried"
    /\ UNCHANGED chart

\* reading chart.upper_control_limit_x
XBarS_UpperControlLimitX ==
    /\ cpc = "built"
    /\ chart.cls = "XBarS"
    /\ ccall' = [op |-> "upper_control_limit_x"]
    /\ cret' = XBarS_upper_control_limit_x(chart)
    /\ cpc' = "queried"
    /\ UNCHANGED chart

\* reading chart.lower_control_limit_s
XBarS_LowerControlLimitS ==
    /\ cpc = "built"
    /\ chart.cls = "XBarS"
    /\ ccall' = [op |-> "lower_control_limit_s"]
    /\ cret' = XBarS_lower_control_limit_s(chart)
    /\ cpc' = "queried"
    /\ UNCHANGED chart

\* reading chart.upper_control_limit_s
XBarS_UpperControlLimitS ==
    /\ cpc = "built"
    /\ chart.cls = "XBarS"
    /\ ccall' = [op |-> "upper_control_limit_s"]
    /\ cret' = XBarS_upper_control_limit_s(chart)
    /\ cpc' = "queried"
    /\ UNCHANGED chart

\* chart.cp(lsl, usl)
XBarS_Cp ==
    /\ cpc = "built"
    /\ chart.cls = "XBarS"
    /\ \E lsl \in SpecificationLimits, usl \in SpecificationLimits :
         /\ ccall' = [op |-> "cp", lsl |-> lsl, usl |-> usl]
         /\ cret' = XBarS_cp(chart, lsl, usl)
    /\ cpc' = "queried"
    /\ UNCHANGED chart

\* chart.cpk(lsl, usl)
XBarS_Cpk ==
    /\ cpc = "built"
    /\ chart.cls = "XBarS"
    /\ \E lsl \in SpecificationLimits, usl \in SpecificationLimits :
         /\ ccall' = [op |-> "cpk", lsl |-> lsl, usl |-> usl]
         /\ cret' = XBarS_cpk(chart, lsl, usl)
    /\ cpc' = "queried"
    /\ UNCHANGED chart

\* IMR(data)
NewIMR ==
    /\ cpc = "new"
    /\ \E data \in IMRSeriesInputs :
         LET r == IMR_init(data)
         IN  /\ ccall' = [op |-> "IMR", data |-> data]
             /\ cret' = [exc |-> r.exc, val |-> PyNone]
             /\ chart' = r.obj
             /\ cpc' = IF r.exc = "none" THEN "built" ELSE "raised"

\* reading chart.center_line_i
IMR_CenterLineI ==
    /\ cpc = "built"
    /\ chart.cls = "IMR"
    /\ ccall' = [op |-> "center_line_i"]
    /\ cret' = IMR_center_line_i(chart)
    /\ cpc' = "queried"
    /\ UNCHANGED chart

\* reading chart.center_line_mr
IMR_CenterLineMR ==
    /\ cpc = "built"
    /\ chart.cls = "IMR"
    /\ ccall' = [op |-> "center_line_mr"]
    /\ cret' = IMR_center_line_mr(chart)
    /\ cpc' = "queried"
    /\ UNCHANGED chart

\* reading chart.lower_control_limit_i
IMR_LowerControlLimitI ==
    /\ cpc = "built"
    /\ chart.cls = "IMR"
    /\ ccall' = [op |-> "lower_control_limit_i"]
    /\ cret' = IMR_lower_control_limit_i(chart)
    /\ cpc' = "queried"
    /\ UNCHANGED chart

\* reading chart.upper_control_limit_i
IMR_UpperControlLimitI ==
    /\ cpc = "built"
    /\ chart.cls = "IMR"
    /\ ccall' = [op |-> "upper_control_limit_i"]
    /\ cret' = IMR_upper_control_limit_i(chart)
    /\ cpc' = "queried"
    /\ UNCHANGED chart

\* reading chart.lower_control_limit_mr
IMR_LowerControlLimitMR ==
    /\ cpc = "built"
    /\ chart.cls = "IMR"
    /\ ccall' = [op |-> "lower_control_limit_mr"]
    /\ cret' = IMR_lower_control_limit_mr(chart)
    /\ cpc' = "queried"
    /\ UNCHANGED chart

\* reading chart.upper_control_limit_mr
IMR_UpperControlLimitMR ==
    /\ cpc = "built"
    /\ chart.cls = "IMR"
    /\ ccall' = [op |-> "upper_control_limit_mr"]
    /\ cret' = IMR_upper_control_limit_mr(chart)
    /\ cpc' = "queried"
    /\ UNCHANGED chart

\* P(defects, sample_sizes)
NewP ==
    /\ cpc = "new"
    /\ \E defects \in DefectsInputs, sample_sizes \in SampleSizeInputs :
         LET r == P_new(defects, sample_sizes)
         IN  /\ ccall' = [op |-> "P", defects |-> defects, sample_sizes |-> sample_sizes]
             /\ cret' = [exc |-> r.exc, val |-> PyNone]
             /\ chart' = r.obj
             /\ cpc' = IF r.exc = "none" THEN "built" ELSE "raised"

\* P()
NewBareP ==
    /\ cpc = "new"
    /\ ccall' = [op |-> "P()"]
    /\ cret' = [exc |-> P_new_bare.exc, val |-> PyNone]
    /\ chart' = P_new_bare.obj
    /\ cpc' = "bare"

\* chart.__init__(p, defects, sample_sizes) on the instance
P_Init ==
    /\ cpc = "bare"
    /\ \E defects \in DefectsInputs, sample_sizes \in SampleSizeInputs :
         /\ ccall' = [op |-> "__init__", defects |-> defects, sample_sizes |-> sample_sizes]
         /\ chart' = P_init(chart, defects, sample_sizes)
    /\ cret' = Ok(PyNone)
    /\ cpc' = "built"

\* reading p.p, p.center_line, p.lower_control_limit or p.upper_control_limit
P_Read ==
    /\ cpc = "built"
    /\ chart.cls = "P"
    /\ \E name \in PAttributes :
         /\ ccall' = [op |-> name]
         /\ cret' = P_getattr(chart, name)
    /\ cpc' = "queried"
    /\ UNCHANGED chart

SpecChartInit == ChartInit /\ BatchIdle /\ RulesIdle

SpecChartNext ==
    \/ NewXBarR /\ UNCHANGED <<batchVars, rulesVars>>
    \/ XBarR_CenterLineX /\ UNCHANGED <<batchVars, rulesVars>>
    \/ XBarR_CenterLineR /\ UNCHANGED <<batchVars, rulesVars>>
    \/ XBarR_LowerControlLimitX /\ UNCHANGED <<batchVars, rulesVars>>
    \/ XBarR_UpperControlLimitX /\ UNCHANGED <<batchVars, rulesVars>>
    \/ XBarR_LowerControlLimitR /\ UNCHANGED <<batchVars, rulesVars>>
    \/ XBarR_UpperControlLimitR /\ UNCHANGED <<batchVars, rulesVars>>
    \/ XBarR_Cp /\ UNCHANGED <<batchVars, rulesVars>>
    \/ XBarR_Cpk /\ UNCHANGED <<batchVars, rulesVars>>
    \/ NewXBarS /\ UNCHANGED <<batchVars, rulesVars>>
    \/ XBarS_CenterLineX /\ UNCHANGED <<batchVars, rulesVars>>
    \/ XBarS_CenterLineS /\ UNCHANGED <<batchVars, rulesVars>>
    \/ XBarS_LowerControlLimitX /\ UNCHANGED <<batchVars, rulesVars>>
    \/ XBarS_UpperControlLimitX /\ UNCHANGED <<batchVars, rulesVars>>
    \/ XBarS_LowerControlLimitS /\ UNCHANGED <<batchVars, rulesVars>>
    \/ XBarS_UpperControlLimitS /\ UNCHANGED <<batchVars, rulesVars>>
    \/ XBarS_Cp /\ UNCHANGED <<batchVars, rulesVars>>
    \/ XBarS_Cpk /\ UNCHANGED <<batchVars, rulesVars>>
    \/ NewIMR /\ UNCHANGED <<batchVars, rulesVars>>
    \/ IMR_CenterLineI /\ UNCHANGED <<batchVars, rulesVars>>
    \/ IMR_CenterLineMR /\ UNCHANGED <<batchVars, rulesVars>>
    \/ IMR_LowerControlLimitI /\ UNCHANGED <<batchVars, rulesVars>>
    \/ IMR_UpperControlLimitI /\ UNCHANGED <<batchVars, rulesVars>>
    \/ IMR_LowerControlLimitMR /\ UNCHANGED <<batchVars, rulesVars>>
    \/ IMR_UpperControlLimitMR /\ UNCHANGED <<batchVars, rulesVars>>
    \/ NewP /\ UNCHANGED <<batchVars, rulesVars>>
    \/ NewBareP /\ UNCHANGED <<batchVars, rulesVars>>
    \/ P_Init /\ UNCHANGED <<batchVars, rulesVars>>
    \/ P_Read /\ UNCHANGED <<batchVars, rulesVars>>

SpecChart == SpecChartInit /\ [][SpecChartNext]_vars

-----------------------------------------------------------------------------
(* Claims about the partitioner.                                           *)

CeilDiv(n, k) == (n + k - 1) \div k

RECURSIVE Concat(_)
Concat(batches) ==
    IF batches = <<>> THEN <<>>
    ELSE batches[1].l \o Concat(Tail(batches))

ChartBatchedReturned == bpc = "returned" /\ bcall.fn = "chart.batched"

C2_InvalidSizeRejected ==
    bpc = "returned" =>
        /\ bcall.n < 1 => bret.exc = "ValueError"
        /\ (bret.exc = "none" /\ bret.val.l = <<>>) => bcall.iterable = <<>>

-----------------------------------------------------------------------------
(* Claims about the rule evaluator.                                        *)

\* d < c - k * s and d > c + k * s, for numbers d, c, s
BelowBy(d, c, s, k) == RealLt(d.x, RealSub(c.x, RealScale(k, s.x)))
AboveBy(d, c, s, k) == RealLt(RealAdd(c.x, RealScale(k, s.x)), d.x)

ScalarEvaluator == weco.built /\ IsNumber(weco.center) /\ IsNumber(weco.sigma)
Evaluated(name) == rpc = "evaluated" /\ rcall.op = name
Returned(b) == rret = Ok(PyBool(b))

\* the evaluator WECO(center=c, sigma=s) with float scalars of integer value
IsWECO(c, s) == weco.built /\ weco.center = PyFloat(c) /\ weco.sigma = PyFloat(s)

\* C3: with scalar center c and sigma s, rule_1(x) returns True if and only
\* if some point d of x has d < c - 3s or d > c + 3s (so a point on a limit
\* does not count, and the empty series gives False).
C3_Rule1 ==
    (Evaluated("rule_1") /\ ScalarEvaluator) =>
        Returned(\E i \in 1..Len(rcall.x) :
                    \/ BelowBy(rcall.x[i], weco.center, weco.sigma, 3)
                    \/ AboveBy(rcall.x[i], weco.center, weco.sigma, 3))

\* C3 witness: both points of the series lie exactly on a 3-sigma limit and
\* rule_1 has answered False.
C3_Witness ==
    /\ Evaluated("rule_1")
    /\ IsWECO(0, 1)
    /\ rcall.x = <<PyFloat(3), PyFloat(-3)>>
    /\ Returned(FALSE)

IsSet(v) == v.t \in {"int", "float", "list"}

\* C7: constructing with center = None or sigma = None and no sample series
\* raises TypeError; every evaluator that construction yields, from a sample
\* series of whatever numeric type too, has center and sigma both set, and a
\* rule evaluation on it fails, if at all, with a TypeError.
C7_ConstructionSetsBoth ==
    /\ (rcall.op = "__init__" /\ rcall.x.t # "list"
            /\ (rcall.center.t = "NoneType" \/ rcall.sigma.t = "NoneType"))
         => (rpc = "raised" /\ rret.exc = "TypeError")
    /\ weco.built => (IsSet(weco.center) /\ IsSet(weco.sigma))
    /\ rpc = "evaluated" => rret.exc \in {"none", "TypeError"}

\* C8: WECO(center=0, sigma=1) with integer scalars is constructed without an
\* error, and rule_1 on an evaluator with center 0 and sigma 1 answers True
\* for a series holding the point 4 and False for a series within 0 +- 3.
C8_IntegerScalarsAccepted ==
    /\ (rcall.op = "__init__" /\ rcall.x.t # "list"
            /\ rcall.center = PyInt(0) /\ rcall.sigma = PyInt(1))
         => rpc = "built"
    /\ (Evaluated("rule_1") /\ weco.center.x = RealOfInt(0) /\ weco.sigma.x = RealOfInt(1)
            /\ IsNumber(weco.center) /\ IsNumber(weco.sigma))
         => Returned(\E i \in 1..Len(rcall.x) :
                        \/ RealLt(RealOfInt(3), rcall.x[i].x)
                        \/ RealLt(rcall.x[i].x, RealOfInt(-3)))

PerPointEvaluator ==
    /\ weco.built
    /\ weco.center.t = "list"
    /\ weco.sigma.t = "list"
    /\ Len(weco.center.l) = Len(weco.sigma.l)

\* C9: with center and sigma per-point sequences as long as the series x,
\* rule_1 .. rule_4 return a boolean without raising, and rule_1's verdict
\* compares each x[i] with center[i] -+ 3 * sigma[i].
C9_PerPointEvaluation ==
    (rpc = "evaluated" /\ PerPointEvaluator /\ Len(rcall.x) = Len(weco.center.l)) =>
        /\ rret.exc = "none"
        /\ rret.val.t = "bool"
        /\ rcall.op = "rule_1" =>
             Returned(\E i \in 1..Len(rcall.x) :
                         \/ BelowBy(rcall.x[i], weco.center.l[i], weco.sigma.l[i], 3)
                         \/ AboveBy(rcall.x[i], weco.center.l[i], weco.sigma.l[i], 3))

-----------------------------------------------------------------------------
(* Claims about the XBar-R calculator.                                     *)

IntValue(v) == v.x.a.n

RECURSIVE SumInts(_)
SumInts(q) == IF q = <<>> THEN 0 ELSE IntValue(q[1]) + SumInts(Tail(q))

\* the j-th consecutive subgroup of size k of a series
Subgroup(data, k, j) == SubSeq(data, (j - 1) * k + 1, Min(j * k, Len(data)))

\* the rational number that a modelled number v is, times m, is the integer t
TimesIs(v, m, t) == v.x.b = 0 /\ v.x.a.n * m = t * v.x.a.d

\* the rational numbers q[1], ..., q[n] sum to m times the number v
RECURSIVE RatSum(_)
RatSum(q) == IF q = <<>> THEN RInt(0) ELSE RAdd(q[1].x.a, RatSum(Tail(q)))
IsMeanOf(v, q) ==
    /\ IsNumber(v)
    /\ v.x.b = 0
    /\ RMul(v.x.a, RInt(Len(q))) = RatSum(q)

-----------------------------------------------------------------------------
(* Claims about the control limits and the constant table.                 *)

RealLe(x, y) == ~RealLt(y, x)
One == RealOfInt(1)

Queried(cls, op) == cpc = "queried" /\ chart.cls = cls /\ ccall.op = op
InTable(k) == k \in MinTableKey..MaxTableKey

SubgroupChart == chart.cls \in {"XBarR", "XBarS"}

\* C12: an XBarR or XBarS chart whose subgroup size is outside 2..25, or that
\* has fewer than 2 subgroups, answers no query with a value: construction
\* has raised, or every query on it raises.
C12_UnsupportedChartFails ==
    (cpc = "queried" /\ SubgroupChart
        /\ (~InTable(chart.subgroup_size) \/ Len(chart.x_bar.l) < 2))
      => cret.exc # "none"

CoefficientReaders ==
    {"lower_control_limit_x", "upper_control_limit_x", "lower_control_limit_r",
     "upper_control_limit_r", "lower_control_limit_s", "upper_control_limit_s",
     "cp", "cpk"}

\* C13: a query of an XBarR or XBarS chart that reads a coefficient raises
\* KeyError when the subgroup size is outside 2..25, and for a size in 2..25
\* finds the row and the coefficient it names (C4 of the capability ratios of
\* XBarS included): it raises neither KeyError nor AttributeError.
C13_TableLookup ==
    (cpc = "queried" /\ SubgroupChart /\ ccall.op \in CoefficientReaders) =>
        IF InTable(chart.subgroup_size)
        THEN cret.exc \notin {"KeyError", "AttributeError"}
        ELSE cret.exc = "KeyError"

\* C14: on an XBarR chart with k in 2..25, at least 2 subgroups and
\* center_line_r > 0, for lsl < usl and sigma = center_line_r / d2,
\* cp(lsl, usl) returns the number (usl - lsl) / (6 sigma) and cpk(lsl, usl)
\* returns the number min((usl - CL_x) / (3 sigma), (CL_x - lsl) / (3 sigma)).
C14_Capability ==
    (cpc = "queried" /\ chart.cls = "XBarR" /\ ccall.op \in {"cp", "cpk"}
        /\ InTable(chart.subgroup_size) /\ Len(chart.x_bar.l) >= 2
        /\ RealLt(Zero, XBarR_center_line_r(chart).val.x)
        /\ RealLt(ccall.lsl.x, ccall.usl.x)) =>
      LET cl_x == XBarR_center_line_x(chart).val.x
          cl_r == XBarR_center_line_r(chart).val.x
          d2 == coefficient(chart.subgroup_size, "d2").val.x
          sigma == RealDiv(cl_r, d2)
          upper == RealDiv(RealSub(ccall.usl.x, cl_x), RealScale(3, sigma))
          lower == RealDiv(RealSub(cl_x, ccall.lsl.x), RealScale(3, sigma))
      IN  /\ cret.exc = "none"
          /\ IsNumber(cret.val)
          /\ ccall.op = "cp" =>
               RealMul(cret.val.x, RealScale(6, cl_r))
                 = RealMul(RealSub(ccall.usl.x, ccall.lsl.x), d2)
          /\ ccall.op = "cpk" =>
               cret.val.x = (IF RealLt(lower, upper) THEN lower ELSE upper)

-----------------------------------------------------------------------------
(* Claims about the I-MR calculator.                                       *)

\* C15: for every series x of length n >= 1, IMR(x) is constructed, mr has
\* length n - 1 and mr[j] = |x[j+1] - x[j]| for each consecutive pair (no
\* entry for the first observation, none between the last and the first);
\* center_line_i returns mean(x); IMR([1, 2, 3]) has mr = [1, 1] and
\* center_line_i = 2.
C15_MovingRange ==
    /\ (cpc \in {"built", "raised"} /\ ccall.op = "IMR" /\ Len(ccall.data) >= 1) =>
         LET x == ccall.data
         IN  /\ cpc = "built"
             /\ chart.i.l = x
             /\ Len(chart.mr.l) = Len(x) - 1
             /\ \A j \in 1..(Len(x) - 1) :
                  /\ chart.mr.l[j].t = "int"
                  /\ chart.mr.l[j].x = RealOfInt(Abs(IntValue(x[j + 1]) - IntValue(x[j])))
             /\ x = Series123 => chart.mr.l = <<PyInt(1), PyInt(1)>>
    /\ (Queried("IMR", "center_line_i") /\ Len(chart.i.l) >= 1) =>
         /\ cret.exc = "none"
         /\ IsMeanOf(cret.val, chart.i.l)
         /\ chart.i.l = Series123 => cret.val.x = RealOfInt(2)

\* C15 witness: center_line_i has been read from IMR([2, 0, 1]), whose moving
\* ranges are [2, 1], and is 1.
C15_Witness ==
    /\ Queried("IMR", "center_line_i")
    /\ chart.i.l = <<PyInt(2), PyInt(0), PyInt(1)>>
    /\ chart.mr.l = <<PyInt(2), PyInt(1)>>
    /\ cret = Ok(PyInt(1))

\* C16: an I-MR chart of a series of fewer than 2 observations answers no
\* accessor with a value: construction has raised, or center_line_i,
\* center_line_mr and the four control limits all raise.
C16_ShortSeriesFails ==
    (cpc = "queried" /\ chart.cls = "IMR" /\ Len(chart.i.l) < 2) => cret.exc # "none"

-----------------------------------------------------------------------------
(* Claims about the P calculator.                                          *)

\* sample sizes that fit the defects: one size, or one size per defect count
SizesFit(defects, sample_sizes) ==
    \/ sample_sizes.t = "int"
    \/ sample_sizes.t = "list" /\ Len(sample_sizes.l) = Len(defects.l)

\* the chart holds the defects and sample sizes of a P chart
IsPChart == chart.built /\ chart.cls = "P" /\ chart.defects.t = "list"

\* C17: P(defects, sample_sizes) with one scalar sample size, or with as many
\* sample sizes as defect counts, constructs a chart; on a chart with at
\* least one defect count lower_control_limit and upper_control_limit are
\* then a single number for a scalar sample size and a sequence as long as
\* the defects for per-point sample sizes, and center_line is a number.
C17_LimitShape ==
    /\ (cpc \in {"built", "raised"} /\ ccall.op = "P"
            /\ SizesFit(ccall.defects, ccall.sample_sizes)) => cpc = "built"
    /\ (cpc = "queried" /\ IsPChart /\ chart.defects.l # <<>>
            /\ SizesFit(chart.defects, chart.sample_sizes)) =>
         /\ cret.exc = "none"
         /\ ccall.op = "center_line" => IsNumber(cret.val)
         /\ ccall.op \in {"lower_control_limit", "upper_control_limit"} =>
              IF chart.sample_sizes.t = "int" THEN IsNumber(cret.val)
              ELSE cret.val.t = "list" /\ Len(cret.val.l) = Len(chart.defects.l)

\* the exceptions Python raises for sequences of unequal length
ShapeMismatch == {"ValueError", "IndexError"}

\* C18: P(defects, sample_sizes) with a sample-size sequence whose length is
\* not that of the defects fails with a shape-mismatch error, at construction
\* or at the first read of p, center_line or a limit; p never returns
\* proportions of a prefix.
C18_ShapeMismatch ==
    /\ (cpc = "raised" /\ ccall.op = "P" /\ ~SizesFit(ccall.defects, ccall.sample_sizes))
         => cret.exc \in ShapeMismatch
    /\ (cpc = "queried" /\ IsPChart /\ ~SizesFit(chart.defects, chart.sample_sizes))
         => cret.exc \in ShapeMismatch

-----------------------------------------------------------------------------
(* Claims about the XBar-S calculator.                                     *)

RECURSIVE SumSqInts(_)
SumSqInts(q) == IF q = <<>> THEN 0 ELSE IntValue(q[1]) * IntValue(q[1]) + SumSqInts(Tail(q))

\* the square of a real that is a rational or a pure surd
SquareOf(x) == RAdd(RMul(x.a, x.a), RMul(RInt(x.b * x.b), x.v))

\* v is the sample standard deviation of the integers g[1], ..., g[m], m >= 2:
\* v >= 0 and m (m - 1) v^2 = m sum(g^2) - sum(g)^2
IsStdevOf(v, g) ==
    LET m == Len(g)
    IN  /\ v.t = "float"
        /\ v.x.a.n = 0 \/ v.x.b = 0
        /\ RealSign(v.x) >= 0
        /\ RMul(RInt(m * (m - 1)), SquareOf(v.x))
             = RInt(m * SumSqInts(g) - SumInts(g) * SumInts(g))

\* C19: for a series of length n and subgroup size k >= 1, XBarS(series, k)
\* raises StatisticsError when some subgroup has exactly one element (n >= 1
\* and k = 1, or n mod k = 1); for every other non-empty series it is
\* constructed, and s has one entry per subgroup, as many as x_bar: s[j] is
\* the standard deviation, >= 0, of the subgroup whose mean is x_bar[j].
C19_XBarS ==
    (cpc \in {"built", "raised"} /\ ccall.op = "XBarS" /\ ccall.subgroup_size >= 1
        /\ ccall.data # <<>>) =>
      LET data == ccall.data
          n == Len(data)
          k == ccall.subgroup_size
          m == CeilDiv(n, k)
      IN  IF k = 1 \/ n % k = 1
          THEN cpc = "raised" /\ cret.exc = "StatisticsError"
          ELSE /\ cpc = "built"
               /\ Len(chart.x_bar.l) = m
               /\ Len(chart.s.l) = m
               /\ \A j \in 1..m :
                    LET g == Subgroup(data, k, j)
                    IN  /\ TimesIs(chart.x_bar.l[j], Len(g), SumInts(g))
                        /\ IsStdevOf(chart.s.l[j], g)

\* C19 witness: XBarS of a series of four observations with k = 3, whose
\* last subgroup has one element, has raised StatisticsError.
C19_Witness ==
    /\ cpc = "raised"
    /\ ccall.op = "XBarS"
    /\ ccall.subgroup_size = 3
    /\ Len(ccall.data) = 4
    /\ cret.exc = "StatisticsError"

=============================================================================
